---- MODULE Spec2Model ----
(***************************************************************************)
(* FIFOEngine (src/src/engine.py): FIFO tax-lot accounting over a sorted   *)
(* list of Transaction records (src/src/models.py).                        *)
(*                                                                         *)
(* One state of the model is the engine after run() has executed a whole   *)
(* number of iterations of its `for tx in self.transactions` loop.         *)
(* Decimal values are integers; the inputs are chosen so that every        *)
(* division the engine performs (fiat_value / amount) is exact.            *)
(***************************************************************************)
EXTENDS Integers, Sequences, FiniteSets, TLC

\* Longest transaction list run() is given.
MaxTx == 3

(***************************************************************************)
(* Python values                                                           *)
(***************************************************************************)
\* Optional[Decimal]: None is <<>>, a value v is <<v>>.  An unbound local
\* variable of run() is <<>> as well.
None == <<>>

Some(v) == <<v>>

abs(x) == IF x < 0 THEN -x ELSE x

\* dict.get(key, default)
get(d, k, default) == IF k \in DOMAIN d THEN d[k] ELSE default

\* d[k] = v on a dict
set(d, k, v) == [x \in DOMAIN d \cup {k} |-> IF x = k THEN v ELSE d[x]]

\* Decimal division a / b for b # 0; the inputs make it exact.
div(a, b) == IF b > 0 THEN a \div b ELSE (-a) \div (-b)

\* str.lower() on the type strings that occur in the input.
lower(s) ==
    CASE s = "Withdrawal" -> "withdrawal"
      [] s = "Deposit"    -> "deposit"
      [] OTHER            -> s

(***************************************************************************)
(* Input transactions.  Of a Transaction the engine reads timestamp, type, *)
(* asset, amount and fiat_value only.                                      *)
(***************************************************************************)
Body(ty, as, am, fv) == [type |-> ty, asset |-> as, amount |-> am, fiat_value |-> fv]

\* Negative-amount movements of every type the engine names, of an unnamed
\* type, and of mixed-case spellings.
OutTypes ==
    {"withdrawal", "transfer", "send", "deposit", "margin", "settled", "spend",
     "receive", "staking", "Withdrawal"}

\* Positive-amount movements other than trades.
InTypes == {"deposit", "transfer", "receive", "Deposit"}

\* Trades of BTC: purchases at unit cost 1, 3 and without a fiat value, sales
\* at unit price 3.
Trades ==
    { Body("trade", "BTC", 1, Some(1)), Body("trade", "BTC", 2, Some(6)),
      Body("trade", "BTC", 1, None),
      Body("trade", "BTC", -1, Some(3)), Body("trade", "BTC", -2, Some(6)) }

Movements ==
    { Body(ty, "BTC", -1, None) : ty \in OutTypes } \cup
    { Body(ty, "BTC", 1, Some(2)) : ty \in InTypes }

\* A second crypto asset, a zero amount, and cash.
Others ==
    { Body("trade", "ETH", 1, Some(2)), Body("trade", "ETH", -1, None),
      Body("trade", "BTC", 0, None),
      Body("deposit", "USD", 2, None), Body("withdrawal", "USD", -1, None),
      Body("deposit", "EUR", 1, None) }

\* Trades whose fiat value is stored with a negative sign.
Signed ==
    { Body("trade", "BTC", 1, Some(-2)), Body("trade", "BTC", -1, Some(-3)) }

Bodies == Trades \cup Movements \cup Others \cup Signed

(***************************************************************************)
(* Engine state                                                            *)
(***************************************************************************)
VARIABLES
    rows,                      \* the rows of the DataFrame the loader has iterated
    given,                     \* the list the loader builds and the constructor is given
    earlier,                   \* realized_gains of an earlier engine on the same list
    withdrawals_as_transfers,  \* self.withdrawals_as_transfers
    deposits_as_transfers,     \* self.deposits_as_transfers
    transactions,              \* self.transactions, the part iterated so far
    inventory,                 \* self.inventory: asset -> queue of lots
    last_known_prices,         \* self.last_known_prices: asset -> price
    realized_gains,            \* self.realized_gains
    portfolio_history,         \* self.portfolio_history
    current_balances,          \* local of run(): asset -> balance
    cumulative_realized_gain,  \* local of run()
    gain,                      \* local of run(), None while unbound
    pc                         \* "loop", "returned" or "raised"

vars ==
    <<rows, given, earlier, withdrawals_as_transfers, deposits_as_transfers, transactions, inventory,
      last_known_prices, realized_gains, portfolio_history, current_balances,
      cumulative_realized_gain, gain, pc>>

\* The empty dict.
EmptyDict == [k \in {} |-> 0]

FiatSymbols == {"ZUSD", "USD", "ZEUR", "EUR"}

CashSymbols == {"ZUSD", "USD"}

ReturnTypes == {"deposit", "transfer", "receive"}

TransferTypes == {"withdrawal", "transfer", "send", "deposit"}

DisposalTypes == {"trade", "margin", "settled", "spend"}

\* is_fiat knowing the dollar only.
is_fiat_dollar_only(asset) == asset \in {"ZUSD", "USD"}

is_fiat(asset) == asset \in FiatSymbols

is_deposit_transfer(flag, type) == flag /\ lower(type) \in ReturnTypes

\* is_transfer with the type compared as written, without lower().
is_transfer_case_sensitive(flag, type) ==
    IF flag /\ type \in DisposalTypes THEN FALSE ELSE flag /\ type \in TransferTypes

\* is_transfer with every type that is not a disposal type a transfer.
is_transfer_by_default(flag, type) == flag /\ lower(type) \notin DisposalTypes

\* is_transfer reading the flag negated.
is_transfer_flag_negated(flag, type) ==
    IF ~flag /\ lower(type) \in DisposalTypes THEN FALSE
    ELSE ~flag /\ lower(type) \in TransferTypes

is_transfer(flag, type) ==
    LET type_lower == lower(type)
        listed == flag /\ type_lower \in TransferTypes
    IN  IF flag /\ type_lower \in DisposalTypes THEN FALSE ELSE listed

\* consume taking lots with pop() instead of popleft(): newest lot first.
RECURSIVE consume_from_back(_, _, _)
consume_from_back(queue, qty_to_sell, total_cost_basis) ==
    IF qty_to_sell > 0 /\ Len(queue) > 0
    THEN LET lot == queue[Len(queue)]
             rest == SubSeq(queue, 1, Len(queue) - 1)
         IN  IF lot.qty <= qty_to_sell
             THEN consume_from_back(rest, qty_to_sell - lot.qty,
                                    total_cost_basis + lot.qty * lot.unit_cost)
             ELSE [queue |-> Append(rest, [lot EXCEPT !.qty = @ - qty_to_sell]),
                   qty_to_sell |-> 0,
                   total_cost_basis |-> total_cost_basis + qty_to_sell * lot.unit_cost]
    ELSE [queue |-> queue, qty_to_sell |-> qty_to_sell,
          total_cost_basis |-> total_cost_basis]

\* consume without `qty_to_sell -= lot_qty` after a whole lot is taken.
RECURSIVE consume_without_decrement(_, _, _)
consume_without_decrement(queue, qty_to_sell, total_cost_basis) ==
    IF qty_to_sell > 0 /\ Len(queue) > 0
    THEN LET lot == Head(queue)
         IN  IF lot.qty <= qty_to_sell
             THEN consume_without_decrement(Tail(queue), qty_to_sell,
                                            total_cost_basis + lot.qty * lot.unit_cost)
             ELSE [queue |-> <<[lot EXCEPT !.qty = @ - qty_to_sell]>> \o Tail(queue),
                   qty_to_sell |-> 0,
                   total_cost_basis |-> total_cost_basis + qty_to_sell * lot.unit_cost]
    ELSE [queue |-> queue, qty_to_sell |-> qty_to_sell,
          total_cost_basis |-> total_cost_basis]

\* consume adding the cost of the whole lot when only part of it is taken.
RECURSIVE consume_whole_lot_cost(_, _, _)
consume_whole_lot_cost(queue, qty_to_sell, total_cost_basis) ==
    IF qty_to_sell > 0 /\ Len(queue) > 0
    THEN LET lot == Head(queue)
         IN  IF lot.qty <= qty_to_sell
             THEN consume_whole_lot_cost(Tail(queue), qty_to_sell - lot.qty,
                                         total_cost_basis + lot.qty * lot.unit_cost)
             ELSE [queue |-> <<[lot EXCEPT !.qty = @ - qty_to_sell]>> \o Tail(queue),
                   qty_to_sell |-> 0,
                   total_cost_basis |-> total_cost_basis + lot.qty * lot.unit_cost]
    ELSE [queue |-> queue, qty_to_sell |-> qty_to_sell,
          total_cost_basis |-> total_cost_basis]

\* consume keeping a lot whose quantity equals the quantity still to sell.
RECURSIVE consume_keeping_empty_lot(_, _, _)
consume_keeping_empty_lot(queue, qty_to_sell, total_cost_basis) ==
    IF qty_to_sell > 0 /\ Len(queue) > 0
    THEN LET lot == Head(queue)
         IN  IF lot.qty < qty_to_sell
             THEN consume_keeping_empty_lot(Tail(queue), qty_to_sell - lot.qty,
                                            total_cost_basis + lot.qty * lot.unit_cost)
             ELSE [queue |-> <<[lot EXCEPT !.qty = @ - qty_to_sell]>> \o Tail(queue),
                   qty_to_sell |-> 0,
                   total_cost_basis |-> total_cost_basis + qty_to_sell * lot.unit_cost]
    ELSE [queue |-> queue, qty_to_sell |-> qty_to_sell,
          total_cost_basis |-> total_cost_basis]

\* The while loop of the sale branch: the queue, the quantity still to sell
\* and the cost basis accumulated when the loop exits.
RECURSIVE consume(_, _, _)
consume(queue, qty_to_sell, total_cost_basis) ==
    IF qty_to_sell > 0 /\ Len(queue) > 0
    THEN LET lot == Head(queue)
         IN  IF lot.qty <= qty_to_sell
             THEN consume(Tail(queue), qty_to_sell - lot.qty,
                          total_cost_basis + lot.qty * lot.unit_cost)
             ELSE [queue |-> <<[lot EXCEPT !.qty = @ - qty_to_sell]>> \o Tail(queue),
                   qty_to_sell |-> 0,
                   total_cost_basis |-> total_cost_basis + qty_to_sell * lot.unit_cost]
    ELSE [queue |-> queue, qty_to_sell |-> qty_to_sell,
          total_cost_basis |-> total_cost_basis]

RECURSIVE sum_qty(_)
sum_qty(queue) == IF queue = <<>> THEN 0 ELSE Head(queue).qty + sum_qty(Tail(queue))

RECURSIVE sum_cost(_)
sum_cost(queue) ==
    IF queue = <<>> THEN 0
    ELSE Head(queue).qty * Head(queue).unit_cost + sum_cost(Tail(queue))

RECURSIVE sum_over(_, _)
sum_over(f, keys) ==
    IF keys = {} THEN 0
    ELSE LET k == CHOOSE x \in keys : TRUE IN f[k] + sum_over(f, keys \ {k})

\* snapshot counting the balance of every symbol is_fiat recognizes.
snapshot_all_fiat(tx, inv, prices, balances, cum) ==
    LET cash == sum_over(balances, DOMAIN balances \cap FiatSymbols)
    IN  [timestamp |-> tx.timestamp,
         total_realized_gain |-> cum,
         total_cost_basis |->
             sum_over([a \in DOMAIN inv |-> sum_cost(inv[a])], DOMAIN inv) + cash,
         total_market_value |->
             sum_over([a \in DOMAIN inv |-> sum_qty(inv[a]) * get(prices, a, 0)],
                      DOMAIN inv) + cash,
         asset_details |->
             [a \in {x \in DOMAIN inv : inv[x] # <<>>} |->
                 [qty |-> sum_qty(inv[a]), cost_basis |-> sum_cost(inv[a])]]]

\* The snapshot appended at the end of an iteration.
snapshot(tx, inv, prices, balances, cum) ==
    LET cash == sum_over(balances, DOMAIN balances \cap CashSymbols)
    IN  [timestamp |-> tx.timestamp,
         total_realized_gain |-> cum,
         total_cost_basis |->
             sum_over([a \in DOMAIN inv |-> sum_cost(inv[a])], DOMAIN inv) + cash,
         total_market_value |->
             sum_over([a \in DOMAIN inv |-> sum_qty(inv[a]) * get(prices, a, 0)],
                      DOMAIN inv) + cash,
         asset_details |->
             [a \in {x \in DOMAIN inv : inv[x] # <<>>} |->
                 [qty |-> sum_qty(inv[a]), cost_basis |-> sum_cost(inv[a])]]]

(***************************************************************************)
(* One iteration of the loop of run().  Each branch gives the values the   *)
(* engine's variables have when the branch is left; raised is TRUE when    *)
(* the branch ends in an UnboundLocalError.                                *)
(***************************************************************************)
Outcome(inv, prices, gains, balances, cum, g, raised) ==
    [inventory |-> inv, last_known_prices |-> prices, realized_gains |-> gains,
     current_balances |-> balances, cumulative_realized_gain |-> cum,
     gain |-> g, raised |-> raised]

credit(balances, asset, amount) == set(balances, asset, get(balances, asset, 0) + amount)

\* is_fiat: the cash balance only.
fiat(tx) ==
    Outcome(inventory, last_known_prices, realized_gains,
            credit(current_balances, tx.asset, tx.amount),
            cumulative_realized_gain, gain, FALSE)

\* acquire adding to the lot at the back when the unit cost is the same.
acquire_merging(inv, asset, amount, cost_per_unit, timestamp, is_return) ==
    LET q == get(inv, asset, <<>>)
    IN  IF is_return THEN inv
        ELSE IF q # <<>> /\ q[Len(q)].unit_cost = cost_per_unit
        THEN set(inv, asset,
                 [q EXCEPT ![Len(q)].qty = q[Len(q)].qty + amount])
        ELSE set(inv, asset,
                 Append(q, [qty |-> amount, unit_cost |-> cost_per_unit,
                            date |-> timestamp]))

\* self.inventory after the amount > 0 branch.
acquire(inv, asset, amount, cost_per_unit, timestamp, is_return) ==
    IF is_return THEN inv
    ELSE set(inv, asset,
             Append(get(inv, asset, <<>>),
                    [qty |-> amount, unit_cost |-> cost_per_unit, date |-> timestamp]))

\* buy_price with the price update inside the branch that adds the lot.
buy_price_unless_return(prices, asset, amount, cost_basis_total, is_return) ==
    IF is_return THEN prices
    ELSE [a \in DOMAIN prices \cup {asset} |->
            IF a = asset THEN abs(div(cost_basis_total, amount)) ELSE prices[a]]

\* self.last_known_prices after the amount > 0 branch.
buy_price(prices, asset, amount, cost_basis_total, is_return) ==
    set(prices, asset, abs(div(cost_basis_total, amount)))

\* amount > 0: BUY / DEPOSIT / RECEIVE
buy(tx) ==
    LET cost_basis_total == IF tx.fiat_value # None THEN tx.fiat_value[1] ELSE 0
        cost_per_unit == div(cost_basis_total, tx.amount)
        is_return == is_deposit_transfer(deposits_as_transfers, tx.type)
    IN  Outcome(acquire(inventory, tx.asset, tx.amount, cost_per_unit, tx.timestamp,
                        is_return),
                buy_price(last_known_prices, tx.asset, tx.amount, cost_basis_total,
                          is_return),
                realized_gains,
                IF is_return THEN current_balances
                ELSE credit(current_balances, tx.asset, tx.amount),
                cumulative_realized_gain, gain, FALSE)

\* The sale branch on self.inventory: what the while loop leaves.
sale(inv, asset, qty_to_sell) ==
    IF asset \in DOMAIN inv
    THEN consume(inv[asset], qty_to_sell, 0)
    ELSE [queue |-> <<>>, qty_to_sell |-> qty_to_sell, total_cost_basis |-> 0]

\* dispose with the sale run on the transfer path as well.
dispose_always(inv, asset, qty_to_sell, transfer) ==
    IF asset \notin DOMAIN inv THEN inv
    ELSE [a \in DOMAIN inv |->
            IF a = asset THEN consume(inv[a], qty_to_sell, 0).queue ELSE inv[a]]

\* self.inventory after the amount < 0 branch.
dispose(inv, asset, qty_to_sell, transfer) ==
    IF transfer \/ asset \notin DOMAIN inv THEN inv
    ELSE set(inv, asset, sale(inv, asset, qty_to_sell).queue)

\* The record the sale branch appends.
sale_record(tx, proceeds_total, total_cost_basis) ==
    [date |-> tx.timestamp, asset |-> tx.asset, quantity |-> abs(tx.amount),
     proceeds |-> proceeds_total, cost_basis |-> total_cost_basis,
     gain_usd |-> proceeds_total - total_cost_basis, tx_type |-> tx.type]

\* The record appended after the transfer / sale branches, from the local gain.
gain_record(tx, g) == [date |-> tx.timestamp, asset |-> tx.asset, gain_usd |-> g]

\* amount < 0: SELL / WITHDRAWAL / SEND
sell(tx) ==
    LET qty_to_sell == abs(tx.amount)
        proceeds_total == abs(IF tx.fiat_value # None THEN tx.fiat_value[1] ELSE 0)
        prices == set(last_known_prices, tx.asset, div(proceeds_total, qty_to_sell))
        transfer == is_transfer(withdrawals_as_transfers, tx.type)
        sold == sale(inventory, tx.asset, qty_to_sell)
        g == IF transfer THEN gain ELSE Some(proceeds_total - sold.total_cost_basis)
        logged == IF transfer THEN realized_gains
                  ELSE Append(realized_gains,
                              sale_record(tx, proceeds_total, sold.total_cost_basis))
    IN  IF g = None
        THEN \* line 152 reads gain before any sale has bound it
             Outcome(inventory, prices, realized_gains, current_balances,
                     cumulative_realized_gain, gain, TRUE)
        ELSE Outcome(dispose(inventory, tx.asset, qty_to_sell, transfer),
                     prices,
                     Append(logged, gain_record(tx, g[1])),
                     credit(current_balances, tx.asset, tx.amount),
                     IF transfer THEN cumulative_realized_gain
                     ELSE cumulative_realized_gain + g[1],
                     g, FALSE)

\* a crypto transaction of amount 0 enters neither branch
skip(tx) ==
    Outcome(inventory, last_known_prices, realized_gains, current_balances,
            cumulative_realized_gain, gain, FALSE)

body(tx) ==
    IF is_fiat(tx.asset) THEN fiat(tx)
    ELSE IF tx.amount > 0 THEN buy(tx)
    ELSE IF tx.amount < 0 THEN sell(tx)
    ELSE skip(tx)

\* A fresh engine: the fields __init__ sets and the locals run() starts with.
Fresh ==
    /\ transactions = <<>>
    /\ inventory = EmptyDict
    /\ last_known_prices = EmptyDict
    /\ realized_gains = <<>>
    /\ portfolio_history = <<>>
    /\ current_balances = EmptyDict
    /\ cumulative_realized_gain = 0
    /\ gain = None
    /\ pc = "loop"

Init ==
    /\ rows = <<>>
    /\ given = <<>>
    /\ earlier = None
    /\ withdrawals_as_transfers \in BOOLEAN
    /\ deposits_as_transfers \in BOOLEAN
    /\ Fresh

\* One iteration of `for tx in self.transactions`, on transaction tx.
Iterate(tx) ==
    LET out == body(tx)
    IN  /\ transactions' = Append(transactions, tx)
        /\ inventory' = out.inventory
        /\ last_known_prices' = out.last_known_prices
        /\ realized_gains' = out.realized_gains
        /\ current_balances' = out.current_balances
        /\ cumulative_realized_gain' = out.cumulative_realized_gain
        /\ gain' = out.gain
        /\ IF out.raised
           THEN /\ pc' = "raised"
                /\ portfolio_history' = portfolio_history
           ELSE /\ pc' = "loop"
                /\ portfolio_history' =
                     Append(portfolio_history,
                            snapshot(tx, out.inventory, out.last_known_prices,
                                     out.current_balances,
                                     out.cumulative_realized_gain))

\* The loop takes the next transaction of a list given in timestamp order and
\* runs its body; the list is drawn one transaction at a time.
Process(b) ==
    /\ pc = "loop"
    /\ Len(transactions) = Len(given)
    /\ Len(transactions) < MaxTx
    /\ LET tx == [timestamp |-> Len(transactions) + 1, type |-> b.type,
                  asset |-> b.asset, amount |-> b.amount, fiat_value |-> b.fiat_value]
       IN  /\ given' = Append(given, tx)
           /\ Iterate(tx)
    /\ UNCHANGED <<rows, earlier, withdrawals_as_transfers, deposits_as_transfers>>

\* The list is exhausted: run() returns.
Return ==
    /\ pc = "loop"
    /\ Len(transactions) = Len(given)
    /\ pc' = "returned"
    /\ UNCHANGED <<rows, given, earlier, withdrawals_as_transfers,
                   deposits_as_transfers, transactions,
                   inventory, last_known_prices, realized_gains, portfolio_history,
                   current_balances, cumulative_realized_gain, gain>>

Next == (\E b \in Bodies : Process(b)) \/ Return

Spec == Init /\ [][Next]_vars

(***************************************************************************)
(* The constructor on a list in any order:                                 *)
(* self.transactions = sorted(transactions, key=lambda x: x.timestamp).    *)
(***************************************************************************)
\* Latest timestamp of a list given in any order.
MaxTime == 2

\* sorted_by_timestamp placing a transaction before those of equal timestamp.
RECURSIVE sorted_ties_reversed(_)
sorted_ties_reversed(list) ==
    IF list = <<>> THEN <<>>
    ELSE LET tx == list[Len(list)]
             done == sorted_ties_reversed(SubSeq(list, 1, Len(list) - 1))
             before == SelectSeq(done, LAMBDA x : x.timestamp < tx.timestamp)
             after == SelectSeq(done, LAMBDA x : x.timestamp >= tx.timestamp)
         IN  before \o <<tx>> \o after

\* sorted(list, key=timestamp): ascending, and stable, so each transaction goes
\* behind those of lower or equal timestamp that precede it in the list.
RECURSIVE sorted_by_timestamp(_)
sorted_by_timestamp(list) ==
    IF list = <<>> THEN <<>>
    ELSE LET tx == list[Len(list)]
             done == sorted_by_timestamp(SubSeq(list, 1, Len(list) - 1))
             before == SelectSeq(done, LAMBDA x : x.timestamp <= tx.timestamp)
             after == SelectSeq(done, LAMBDA x : x.timestamp > tx.timestamp)
         IN  before \o <<tx>> \o after

\* The transactions of a list given in any order: two purchases and a sale of
\* BTC and a purchase of ETH, at any timestamp.
Stamped ==
    { [timestamp |-> t, type |-> b.type, asset |-> b.asset, amount |-> b.amount,
       fiat_value |-> b.fiat_value] :
        t \in 1..MaxTime,
        b \in { Body("trade", "BTC", 1, Some(1)), Body("trade", "BTC", 2, Some(6)),
                 Body("trade", "BTC", -1, Some(3)), Body("trade", "ETH", 1, Some(2)) } }

Lists == UNION { [1..n -> Stamped] : n \in 0..MaxTx }

\* The engine constructed on a list in any order.
InitSorted ==
    /\ rows = <<>>
    /\ given \in Lists
    /\ earlier = None
    /\ withdrawals_as_transfers \in BOOLEAN
    /\ deposits_as_transfers \in BOOLEAN
    /\ Fresh

\* The loop takes the next transaction of self.transactions and runs its body.
ProcessGiven ==
    /\ pc = "loop"
    /\ Len(transactions) < Len(given)
    /\ Iterate(sorted_by_timestamp(given)[Len(transactions) + 1])
    /\ UNCHANGED <<rows, given, earlier, withdrawals_as_transfers,
                   deposits_as_transfers>>

NextSorted == ProcessGiven \/ Return

SpecSorted == InitSorted /\ [][NextSorted]_vars

(***************************************************************************)
(* Two engines on one list: the first with withdrawals_as_transfers false, *)
(* then a fresh one with the flag true, deposits_as_transfers the same.    *)
(***************************************************************************)
\* Purchases, a sale, outflows of the movement types and an inflow of BTC.
ToggleBodies ==
    { Body("trade", "BTC", 1, Some(1)), Body("trade", "BTC", 2, Some(6)),
      Body("trade", "BTC", -1, Some(3)),
      Body("withdrawal", "BTC", -1, None), Body("transfer", "BTC", -1, None),
      Body("send", "BTC", -1, None), Body("Withdrawal", "BTC", -1, None),
      Body("transfer", "BTC", 1, Some(2)) }

InitToggle ==
    /\ rows = <<>>
    /\ given = <<>>
    /\ earlier = None
    /\ withdrawals_as_transfers = FALSE
    /\ deposits_as_transfers \in BOOLEAN
    /\ Fresh

\* The first engine's run() has returned: its realized_gains are kept and a
\* fresh engine is constructed on the same list with the flag true.
Toggle ==
    /\ pc = "returned"
    /\ earlier = None
    /\ earlier' = Some(realized_gains)
    /\ withdrawals_as_transfers' = TRUE
    /\ transactions' = <<>>
    /\ inventory' = EmptyDict
    /\ last_known_prices' = EmptyDict
    /\ realized_gains' = <<>>
    /\ portfolio_history' = <<>>
    /\ current_balances' = EmptyDict
    /\ cumulative_realized_gain' = 0
    /\ gain' = None
    /\ pc' = "loop"
    /\ UNCHANGED <<rows, given, deposits_as_transfers>>

NextToggle ==
    \/ \E b \in ToggleBodies : earlier = None /\ Process(b)
    \/ Return
    \/ Toggle
    \/ ProcessGiven

SpecToggle == InitToggle /\ [][NextToggle]_vars

(***************************************************************************)
(* parse_kraken_ledger (src/src/loader.py), followed by the engine run on  *)
(* the list it returns, as in __main__.py.                                 *)
(***************************************************************************)
\* Most rows of a DataFrame.
MaxRows == 3

\* The float nan pandas puts in an empty cell.
NaN == "NaN"

notna(cell) == cell # NaN

\* The result of a call: a value, or the exception raised.
Value(v) == [raises |-> "", value |-> v]

Raises(e) == [raises |-> e, value |-> 0]

\* pd.to_datetime(cell).to_pydatetime() on the time cells of Rows.
to_datetime(cell) ==
    CASE cell = "2024-01-01 00:00:00" -> Value(1)
      [] cell = "2024-01-02 00:00:00" -> Value(2)
      [] OTHER -> Raises("ValueError")

\* The values datetime.utcnow() may return: later than the ledger's dates.
utcnow == {3, 4}

\* The timestamps the first try block may leave in ts.
parse_time(cell) ==
    IF to_datetime(cell).raises # "" THEN utcnow ELSE {to_datetime(cell).value}

\* Decimal(str(cell)) on the numeric cells of Rows: a string that is not a
\* number raises decimal.InvalidOperation, an ArithmeticError.
Decimal(cell) ==
    CASE cell = "0" -> Value(0)
      [] cell = "1" -> Value(1)
      [] cell = "-1" -> Value(-1)
      [] cell = "2" -> Value(2)
      [] cell = "3" -> Value(3)
      [] OTHER -> Raises("InvalidOperation")

\* Decimal(str(cell)) if the cell is neither nan nor '', else None.
optional_decimal(cell) ==
    IF notna(cell) /\ cell # ""
    THEN IF Decimal(cell).raises # "" THEN Decimal(cell)
         ELSE Value(Some(Decimal(cell).value))
    ELSE Value(None)

\* Some of the mapping of Kraken asset codes to standard symbols.
clean_asset_code(asset) ==
    CASE asset = "XXBT" -> "BTC"
      [] asset = "XETH" -> "ETH"
      [] asset = "ZUSD" -> "USD"
      [] asset = "ZEUR" -> "EUR"
      [] OTHER -> asset

\* The second try block: amt, fee, bal and fiat, or the first exception raised.
numerics(row) ==
    LET amt == Decimal(row.amount)
        fee == Decimal(row.fee)
        bal == optional_decimal(row.balance)
        fiat_ == optional_decimal(row.amountusd)
    IN  IF amt.raises # "" THEN amt
        ELSE IF fee.raises # "" THEN fee
        ELSE IF bal.raises # "" THEN bal
        ELSE IF fiat_.raises # "" THEN fiat_
        ELSE Value([amt |-> amt.value, fee |-> fee.value, bal |-> bal.value,
                    fiat |-> fiat_.value])

\* A row of the ledger.
Row(txid, time, type, asset, amount, fee, balance, amountusd) ==
    [txid |-> txid, time |-> time, type |-> type, asset |-> asset,
     amount |-> amount, fee |-> fee, balance |-> balance, amountusd |-> amountusd]

\* The rows a ledger may hold at an index: a purchase and a sale of BTC, a
\* dollar deposit with the balance cell empty and amountusd '', and the purchase
\* with one of its cells not a date or not a number.
Rows(txid) ==
    { Row(txid, "2024-01-01 00:00:00", "trade", "XXBT", "1", "0", "1", "2"),
      Row(txid, "2024-01-02 00:00:00", "trade", "XXBT", "-1", "0", "0", "3"),
      Row(txid, "2024-01-01 00:00:00", "deposit", "ZUSD", "2", "0", NaN, ""),
      Row(txid, "abc", "trade", "XXBT", "1", "0", "1", "2"),
      Row(txid, "2024-01-01 00:00:00", "trade", "XXBT", "abc", "0", "1", "2"),
      Row(txid, "2024-01-01 00:00:00", "trade", "XXBT", "1", "abc", "1", "2"),
      Row(txid, "2024-01-01 00:00:00", "trade", "XXBT", "1", "0", "abc", "2"),
      Row(txid, "2024-01-01 00:00:00", "trade", "XXBT", "1", "0", "1", "abc") }

\* parse_kraken_ledger has been called on a DataFrame; the engine is not
\* yet constructed.
InitLoader ==
    /\ rows = <<>>
    /\ given = <<>>
    /\ earlier = None
    /\ withdrawals_as_transfers \in BOOLEAN
    /\ deposits_as_transfers \in BOOLEAN
    /\ transactions = <<>>
    /\ inventory = EmptyDict
    /\ last_known_prices = EmptyDict
    /\ realized_gains = <<>>
    /\ portfolio_history = <<>>
    /\ current_balances = EmptyDict
    /\ cumulative_realized_gain = 0
    /\ gain = None
    /\ pc = "parsing"

\* One iteration of `for _, row in df.iterrows()`, on row r.
ParseRow(r) ==
    /\ pc = "parsing"
    /\ Len(rows) < MaxRows
    /\ rows' = Append(rows, r)
    /\ \E ts \in parse_time(r.time) :
          LET num == numerics(r)
              tx == [txid |-> r.txid, timestamp |-> ts, type |-> r.type,
                     asset |-> clean_asset_code(r.asset), amount |-> num.value.amt,
                     fee |-> num.value.fee, balance |-> num.value.bal,
                     fiat_value |-> num.value.fiat]
          IN  IF num.raises = "ValueError"
              THEN given' = given /\ pc' = pc
              ELSE IF num.raises # ""
              THEN given' = given /\ pc' = "raised"
              ELSE given' = Append(given, tx) /\ pc' = pc
    /\ UNCHANGED <<earlier, withdrawals_as_transfers, deposits_as_transfers,
                   transactions, inventory, last_known_prices, realized_gains,
                   portfolio_history, current_balances, cumulative_realized_gain,
                   gain>>

\* `return transactions`, and the engine constructed on the list returned.
ParseReturn ==
    /\ pc = "parsing"
    /\ pc' = "loop"
    /\ UNCHANGED <<rows, given, earlier, withdrawals_as_transfers,
                   deposits_as_transfers, transactions, inventory,
                   last_known_prices, realized_gains, portfolio_history,
                   current_balances, cumulative_realized_gain, gain>>

NextLoader ==
    \/ \E r \in Rows(Len(rows) + 1) : ParseRow(r)
    \/ ParseReturn
    \/ ProcessGiven
    \/ Return

SpecLoader == InitLoader /\ [][NextLoader]_vars

(***************************************************************************)
(* Vocabulary of the properties                                            *)
(***************************************************************************)
Last(s) == s[Len(s)]

Min(a, b) == IF a < b THEN a ELSE b

\* The transaction of the iteration that has just run, and of the step taken.
Current == Last(transactions)

Stepped == Len(transactions') = Len(transactions) + 1

Crypto(tx) == tx.asset \notin {"USD", "ZUSD", "EUR", "ZEUR"}

\* How the engine processed a transaction.
Disposal(tx) ==
    Crypto(tx) /\ tx.amount < 0 /\ ~is_transfer(withdrawals_as_transfers, tx.type)

Transfer(tx) ==
    Crypto(tx) /\ tx.amount < 0 /\ is_transfer(withdrawals_as_transfers, tx.type)

Return_(tx) ==
    Crypto(tx) /\ tx.amount > 0 /\ is_deposit_transfer(deposits_as_transfers, tx.type)

Acquisition(tx) ==
    Crypto(tx) /\ tx.amount > 0 /\ ~is_deposit_transfer(deposits_as_transfers, tx.type)

held(inv, asset) == sum_qty(get(inv, asset, <<>>))

RECURSIVE sum_gain_usd(_)
sum_gain_usd(log) ==
    IF log = <<>> THEN 0 ELSE Head(log).gain_usd + sum_gain_usd(Tail(log))

\* The dates of the records of the log, in order.
Dates(log) == [i \in 1..Len(log) |-> log[i].date]

\* The timestamps of the transactions processed as disposals, in order.
RECURSIVE DisposalDates(_)
DisposalDates(txs) ==
    IF txs = <<>> THEN <<>>
    ELSE (IF Disposal(Head(txs)) THEN <<Head(txs).timestamp>> ELSE <<>>)
         \o DisposalDates(Tail(txs))

(***************************************************************************)
(* Properties                                                              *)
(***************************************************************************)
\* C1: when run() has returned, realized_gains holds exactly one record for
\* each transaction processed as a disposal, in order, and no other record.
C1_OneRecordPerDisposal ==
    pc = "returned" => Dates(realized_gains) = DisposalDates(transactions)

\* C2: the total_realized_gain of the last snapshot equals the sum of gain_usd
\* over the records appended to realized_gains so far.
C2_CumulativeGainIsSumOfRecords ==
    portfolio_history # <<>> =>
        Last(portfolio_history).total_realized_gain = sum_gain_usd(realized_gains)

\* C3: run() never raises, and when it returns portfolio_history holds one
\* snapshot per input transaction.
C3_RunCompletes ==
    /\ pc # "raised"
    /\ pc = "returned" => Len(portfolio_history) = Len(transactions)

\* The step consumed lots of the asset of tx: the asset holds what it held less
\* the quantity sold, or nothing when it held less, and the record of a sale is
\* the first record the step appends.
Sold(tx) ==
    /\ held(inventory', tx.asset) =
          held(inventory, tx.asset) - Min(abs(tx.amount), held(inventory, tx.asset))
    /\ Len(realized_gains') > Len(realized_gains)
    /\ "tx_type" \in DOMAIN realized_gains'[Len(realized_gains) + 1]

\* The step consumed no lot and recorded no sale.
Kept ==
    /\ inventory' = inventory
    /\ cumulative_realized_gain' = cumulative_realized_gain
    /\ \A i \in (Len(realized_gains) + 1)..Len(realized_gains') :
          "tx_type" \notin DOMAIN realized_gains'[i]

\* The asset of the last transaction had lots before the transaction ran,
\* by the snapshot appended before it.
HeldBefore ==
    /\ Len(portfolio_history) >= 2
    /\ Current.asset \in DOMAIN portfolio_history[Len(portfolio_history) - 1].asset_details

\* The last transaction ran to the end of the loop body.
Completed ==
    /\ pc = "loop"
    /\ transactions # <<>>
    /\ Len(portfolio_history) = Len(transactions)

\* C4: a negative-amount crypto transaction consumes lots when
\* withdrawals_as_transfers is false or its type, lower-cased, is trade, margin,
\* settled or spend; with the flag true and a type of withdrawal, transfer,
\* send or deposit it consumes none.
C4_Classification ==
    [][Stepped =>
        LET tx == Last(transactions')
            ty == lower(tx.type)
        IN  (Crypto(tx) /\ tx.amount < 0) =>
              /\ (~withdrawals_as_transfers
                    \/ ty \in {"trade", "margin", "settled", "spend"}) => Sold(tx)
              /\ (withdrawals_as_transfers
                    /\ ty \in {"withdrawal", "transfer", "send", "deposit"}) => Kept
    ]_vars

\* C4 witness: with the flag true, a spend of a held asset has consumed the lot.
C4_Witness ==
    /\ Completed /\ HeldBefore /\ withdrawals_as_transfers
    /\ Current.type = "spend" /\ Current.amount < 0
    /\ inventory[Current.asset] = <<>>

\* C5 as claimed: a negative-amount crypto transaction of a type in neither list
\* consumes no lot when withdrawals_as_transfers is true, consumes lots when it
\* is false, and never raises.
C5_UnknownTypeFollowsFlag ==
    [][Stepped =>
        LET tx == Last(transactions')
            ty == lower(tx.type)
        IN  (Crypto(tx) /\ tx.amount < 0
               /\ ty \notin {"withdrawal", "transfer", "send", "deposit",
                             "trade", "margin", "settled", "spend"}) =>
              /\ pc' # "raised"
              /\ withdrawals_as_transfers => Kept
              /\ ~withdrawals_as_transfers => Sold(tx)
    ]_vars

\* C5 amended: a negative-amount crypto transaction of a type in neither list
\* is processed as a disposal under either setting of the flag, and never raises.
C5_UnknownTypeIsDisposal ==
    [][Stepped =>
        LET tx == Last(transactions')
            ty == lower(tx.type)
        IN  (Crypto(tx) /\ tx.amount < 0
               /\ ty \notin {"withdrawal", "transfer", "send", "deposit",
                             "trade", "margin", "settled", "spend"}) =>
              /\ pc' # "raised"
              /\ Sold(tx)
    ]_vars

\* C5 witness: with the flag true, a staking outflow of a held asset has
\* consumed the lot and logged a sale.
C5_Witness ==
    /\ Completed /\ HeldBefore /\ withdrawals_as_transfers
    /\ Current.type = "staking" /\ Current.amount < 0
    /\ inventory[Current.asset] = <<>>
    /\ realized_gains # <<>> /\ Last(realized_gains).date = Current.timestamp

\* C6: a negative-amount transaction the engine classifies as a transfer leaves
\* every lot queue and the cumulative realized gain as they were.
C6_TransferKeepsInventory ==
    [][(Stepped /\ Transfer(Last(transactions'))) =>
          /\ inventory' = inventory
          /\ cumulative_realized_gain' = cumulative_realized_gain
    ]_vars

\* C6 witness: a transfer of a held asset has run to the end of the loop body.
C6_Witness ==
    /\ Completed /\ HeldBefore
    /\ Transfer(Current)
    /\ inventory[Current.asset] # <<>>

\* A positive-amount crypto transaction that is a return of transferred funds,
\* in the words of C7.
IsReturn(tx) ==
    /\ Crypto(tx) /\ tx.amount > 0
    /\ deposits_as_transfers
    /\ lower(tx.type) \in {"deposit", "transfer", "receive"}

\* C7 as claimed: a return changes no lot queue, no last-known price, and
\* neither the cumulative realized gain nor the realized-gain log.
C7_ReturnChangesNothing ==
    [][(Stepped /\ IsReturn(Last(transactions'))) =>
          /\ inventory' = inventory
          /\ last_known_prices' = last_known_prices
          /\ cumulative_realized_gain' = cumulative_realized_gain
          /\ realized_gains' = realized_gains
    ]_vars

\* C7 amended: a return changes no lot queue, and neither the cumulative
\* realized gain nor the realized-gain log (nor the balances); it appends one
\* snapshot and sets the last-known price of its asset to |fiat_value / amount|,
\* 0 when fiat_value is absent, leaving the other assets' prices as they were.
C7_ReturnChangesPriceOnly ==
    [][(Stepped /\ IsReturn(Last(transactions'))) =>
          LET tx == Last(transactions')
              price == IF tx.fiat_value = None THEN 0
                       ELSE abs(tx.fiat_value[1]) \div tx.amount
          IN  /\ inventory' = inventory
              /\ cumulative_realized_gain' = cumulative_realized_gain
              /\ realized_gains' = realized_gains
              /\ current_balances' = current_balances
              /\ Len(portfolio_history') = Len(portfolio_history) + 1
              /\ DOMAIN last_known_prices' = DOMAIN last_known_prices \cup {tx.asset}
              /\ \A a \in DOMAIN last_known_prices' :
                    last_known_prices'[a] =
                        IF a = tx.asset THEN price ELSE last_known_prices[a]
    ]_vars

\* C7 witness: a return of a held asset whose last-known price was 1 has run;
\* the lot is in place and the price is now 2.
C7_Witness ==
    /\ Completed /\ HeldBefore
    /\ IsReturn(Current) /\ Current.fiat_value = Some(2)
    /\ Len(inventory[Current.asset]) = 1
    /\ inventory[Current.asset][1].unit_cost = 1
    /\ last_known_prices[Current.asset] = 2

\* Lot j of queue q is as it was acquired: an acquisition of that asset, date
\* and quantity is among the transactions processed.
Untouched(txs, asset, lot) ==
    \E i \in 1..Len(txs) :
        /\ Acquisition(txs[i]) /\ txs[i].asset = asset
        /\ txs[i].timestamp = lot.date /\ txs[i].amount = lot.qty

\* In every queue at most the front lot is smaller than it was acquired.
OnlyFrontReduced ==
    \A a \in DOMAIN inventory :
        \A j \in 1..Len(inventory[a]) :
            \/ Untouched(transactions, a, inventory[a][j])
            \/ /\ j = 1
               /\ \E i \in 1..Len(transactions) :
                     /\ Acquisition(transactions[i]) /\ transactions[i].asset = a
                     /\ transactions[i].timestamp = inventory[a][j].date
                     /\ transactions[i].amount > inventory[a][j].qty

\* C8: a disposal takes lots from the front of the asset's queue only: what is
\* left is a suffix of the queue, of which only the first lot may have lost
\* quantity, the lots before it having been removed whole; the other assets'
\* queues are as they were, and in every state at most the front lot of a queue
\* is smaller than it was acquired.
C8_FIFO ==
    [][Stepped =>
        LET tx == Last(transactions')
        IN  /\ OnlyFrontReduced'
            /\ (Disposal(tx) /\ tx.asset \in DOMAIN inventory) =>
                 LET q == inventory[tx.asset]
                     r == inventory'[tx.asset]
                     k == Len(q) - Len(r)
                 IN  /\ k >= 0
                     /\ \A a \in DOMAIN inventory \ {tx.asset} :
                           inventory'[a] = inventory[a]
                     /\ \A j \in 2..Len(r) : r[j] = q[k + j]
                     /\ Len(r) >= 1 =>
                           /\ r[1].unit_cost = q[k + 1].unit_cost
                           /\ r[1].date = q[k + 1].date
                           /\ 0 < r[1].qty /\ r[1].qty <= q[k + 1].qty
                     /\ sum_qty(q) - sum_qty(r) = Min(abs(tx.amount), sum_qty(q))
    ]_vars

\* C8 witness: of two lots, 1 bought at t=1 and 2 bought at t=2, a sale of 2
\* has removed the older one and taken 1 from the newer.
C8_Witness ==
    /\ Completed /\ Len(transactions) = 3
    /\ Acquisition(transactions[1]) /\ transactions[1].asset = "BTC"
    /\ transactions[1].amount = 1
    /\ Disposal(Current) /\ Current.amount = -2
    /\ inventory["BTC"] = <<[qty |-> 1, unit_cost |-> 3, date |-> 2]>>

\* C9: a disposal removes |amount| from the lots when that much is held and
\* what is held otherwise, it does not raise, and when it removed less than
\* |amount| what the step emits (the records appended to realized_gains and the
\* snapshot) differs from what the same transaction emits when the inventory,
\* holding one more lot for the missing quantity, satisfies it in full.
C9_ShortfallObservable ==
    [][(Stepped /\ Disposal(Last(transactions'))) =>
        LET tx == Last(transactions')
            want == abs(tx.amount)
            had == held(inventory, tx.asset)
            proceeds == abs(IF tx.fiat_value = None THEN 0 ELSE tx.fiat_value[1])
            padded == set(inventory, tx.asset,
                          get(inventory, tx.asset, <<>>) \o
                          <<[qty |-> want - had, unit_cost |-> 0, date |-> tx.timestamp]>>)
            full == sale(padded, tx.asset, want)
            full_gain == proceeds - full.total_cost_basis
            emitted ==
                <<SubSeq(realized_gains', Len(realized_gains) + 1, Len(realized_gains')),
                  Last(portfolio_history')>>
            emitted_in_full ==
                <<<<sale_record(tx, proceeds, full.total_cost_basis),
                    gain_record(tx, full_gain)>>,
                  snapshot(tx, dispose(padded, tx.asset, want, FALSE),
                           last_known_prices', current_balances',
                           cumulative_realized_gain + full_gain)>>
        IN  /\ pc' # "raised"
            /\ had - held(inventory', tx.asset) = Min(want, had)
            /\ had < want => emitted # emitted_in_full
    ]_vars

\* The crypto assets of the input.
CryptoAssets == {b.asset : b \in {x \in Bodies : Crypto(x)}}

\* Genuine acquisitions less taxable disposals of an asset, over the
\* transactions processed.
RECURSIVE Net(_, _)
Net(txs, asset) ==
    IF txs = <<>> THEN 0
    ELSE LET tx == Last(txs)
             before == Net(SubSeq(txs, 1, Len(txs) - 1), asset)
         IN  IF tx.asset = asset /\ Acquisition(tx) THEN before + tx.amount
             ELSE IF tx.asset = asset /\ Disposal(tx) THEN before - abs(tx.amount)
             ELSE before

\* The same, a disposal counting for the quantity held when it exceeds it.
RECURSIVE NetHeld(_, _)
NetHeld(txs, asset) ==
    IF txs = <<>> THEN 0
    ELSE LET tx == Last(txs)
             before == NetHeld(SubSeq(txs, 1, Len(txs) - 1), asset)
         IN  IF tx.asset = asset /\ Acquisition(tx) THEN before + tx.amount
             ELSE IF tx.asset = asset /\ Disposal(tx)
                  THEN before - Min(abs(tx.amount), before)
             ELSE before

\* C10 as claimed: the open lots of each crypto asset sum to its genuine
\* acquisitions less the quantities of its taxable disposals processed so far.
C10_Conservation ==
    \A a \in CryptoAssets : held(inventory, a) = Net(transactions, a)

\* C10 amended: the open lots of each crypto asset sum to its genuine
\* acquisitions less what its taxable disposals consumed, a disposal consuming
\* |amount| or, when less is held, the quantity held; transfers and returns do
\* not enter the balance.
C10_ConservationOfHeld ==
    \A a \in CryptoAssets : held(inventory, a) = NetHeld(transactions, a)

\* C10 witness: BTC is held after a disposal that exceeded the holding, so more
\* is held than acquisitions less disposals.
C10_Witness ==
    /\ Completed
    /\ held(inventory, "BTC") > 0
    /\ Net(transactions, "BTC") < held(inventory, "BTC")

\* The cost of the lot portions a step took from the queues: the lots keep
\* their unit cost, so it is the cost held before less the cost held after.
ConsumedCost(asset) ==
    sum_cost(get(inventory, asset, <<>>)) - sum_cost(get(inventory', asset, <<>>))

\* C11: the record a disposal appends has proceeds = |fiat_value| (0 when
\* fiat_value is absent), cost_basis = the cost of the lot portions consumed and
\* gain_usd = proceeds - cost_basis, and that gain is what the cumulative
\* realized gain grows by.
C11_GainRecord ==
    [][(Stepped /\ Disposal(Last(transactions'))) =>
        LET tx == Last(transactions')
            rec == realized_gains'[Len(realized_gains) + 1]
        IN  /\ rec.proceeds = (IF tx.fiat_value = None THEN 0
                               ELSE IF tx.fiat_value[1] < 0 THEN -tx.fiat_value[1]
                               ELSE tx.fiat_value[1])
            /\ rec.cost_basis = ConsumedCost(tx.asset)
            /\ rec.gain_usd = rec.proceeds - rec.cost_basis
            /\ rec.quantity = abs(tx.amount) /\ rec.asset = tx.asset
            /\ rec.date = tx.timestamp /\ rec.tx_type = tx.type
            /\ cumulative_realized_gain' = cumulative_realized_gain + rec.gain_usd
    ]_vars

\* C11 witness: with withdrawals_as_transfers false, a withdrawal without a
\* fiat value of a lot bought at unit cost 3 has been recorded with proceeds 0
\* and a gain of minus the cost consumed.
C11_Witness ==
    /\ Completed /\ HeldBefore /\ ~withdrawals_as_transfers
    /\ Current.type = "withdrawal" /\ Current.fiat_value = None
    /\ Len(realized_gains) >= 2
    /\ LET rec == realized_gains[Len(realized_gains) - 1]
       IN  /\ rec.date = Current.timestamp
           /\ rec.proceeds = 0 /\ rec.cost_basis = 3 /\ rec.gain_usd = -3

\* The transactions of a list that bear timestamp t, in the order of the list.
At(list, t) == SelectSeq(list, LAMBDA x : x.timestamp = t)

Stamps(list) == {list[i].timestamp : i \in 1..Len(list)}

IsPrefix(s, t) == Len(s) <= Len(t) /\ s = SubSeq(t, 1, Len(s))

NonDecreasing(stamps) ==
    \A i \in 1..Len(stamps) : \A j \in i..Len(stamps) : stamps[i] <= stamps[j]

\* C12: whatever the order of the given list, the transactions are processed in
\* ascending timestamp order, those of equal timestamp in the order of the given
\* list, and all of them when run() returns; the snapshot timestamps are
\* non-decreasing and so are the dates of the lots of each queue.
C12_SortedStable ==
    /\ NonDecreasing([i \in 1..Len(transactions) |-> transactions[i].timestamp])
    /\ \A t \in Stamps(given) : IsPrefix(At(transactions, t), At(given, t))
    /\ \A t \in Stamps(given) :
          \A u \in Stamps(given) :
              (t < u /\ At(transactions, u) # <<>>) =>
                  At(transactions, t) = At(given, t)
    /\ pc = "returned" => Len(transactions) = Len(given)
    /\ NonDecreasing([i \in 1..Len(portfolio_history) |->
                         portfolio_history[i].timestamp])
    /\ \A a \in DOMAIN inventory :
          NonDecreasing([i \in 1..Len(inventory[a]) |-> inventory[a][i].date])

\* C12 witness: run() has returned on a list of three transactions given latest
\* first, the first two different and of equal timestamp, and two lots are held.
C12_Witness ==
    /\ pc = "returned" /\ Len(given) = 3
    /\ given[1].timestamp = given[2].timestamp /\ given[1] # given[2]
    /\ given[3].timestamp < given[1].timestamp
    /\ "BTC" \in DOMAIN inventory /\ Len(inventory["BTC"]) = 2
    /\ transactions = <<given[3], given[1], given[2]>>

\* The records of a log that belong to transactions of the given list of type
\* withdrawal, transfer or send: those dated by such a transaction.
MovementRecords(log) ==
    { i \in 1..Len(log) :
        \E k \in 1..Len(given) :
            /\ given[k].timestamp = log[i].date /\ given[k].asset = log[i].asset
            /\ lower(given[k].type) \in {"withdrawal", "transfer", "send"} }

\* C13: on one list and one value of deposits_as_transfers, the engine run with
\* withdrawals_as_transfers false has logged at least as many records for
\* transactions of type withdrawal, transfer or send as the fresh engine run
\* with the flag true, at any point of the second run and at its end.
C13_ToggleMonotone ==
    earlier # None =>
        Cardinality(MovementRecords(earlier[1])) >=
            Cardinality(MovementRecords(realized_gains))

\* C13 witness: the second run has returned with a record for a movement, and
\* the first run had logged more of them.
C13_Witness ==
    /\ earlier # None /\ pc = "returned" /\ withdrawals_as_transfers
    /\ Cardinality(MovementRecords(realized_gains)) > 0
    /\ Cardinality(MovementRecords(earlier[1])) >
          Cardinality(MovementRecords(realized_gains))

\* The assets of the input.
Assets == {b.asset : b \in Bodies}

\* Quantity times unit cost over the first n lots of the queue of an asset.
RECURSIVE CostOfLots(_, _)
CostOfLots(asset, n) ==
    IF n = 0 THEN 0
    ELSE inventory[asset][n].qty * inventory[asset][n].unit_cost
         + CostOfLots(asset, n - 1)

RECURSIVE QtyOfLots(_, _)
QtyOfLots(asset, n) ==
    IF n = 0 THEN 0 ELSE inventory[asset][n].qty + QtyOfLots(asset, n - 1)

RECURSIVE Sum(_, _)
Sum(F(_), S) ==
    IF S = {} THEN 0 ELSE LET x == CHOOSE y \in S : TRUE IN F(x) + Sum(F, S \ {x})

CostHeld(a) == IF a \in DOMAIN inventory THEN CostOfLots(a, Len(inventory[a])) ELSE 0

ValueHeld(a) ==
    IF a \in DOMAIN inventory /\ a \in DOMAIN last_known_prices
    THEN QtyOfLots(a, Len(inventory[a])) * last_known_prices[a]
    ELSE 0

Balance(a) == IF a \in DOMAIN current_balances THEN current_balances[a] ELSE 0

\* The last snapshot is that of the engine's present state.
SnapshotIsCurrent ==
    portfolio_history # <<>> /\ Len(portfolio_history) = Len(transactions)

\* C14 as claimed: the cash counted in the totals of a snapshot is the balance
\* of every symbol step 1 treats as fiat: USD, ZUSD, EUR and ZEUR.
C14_TotalsCountAllFiat ==
    SnapshotIsCurrent =>
        LET cash == Sum(Balance, {"USD", "ZUSD", "EUR", "ZEUR"})
            snap == Last(portfolio_history)
        IN  /\ snap.total_cost_basis = Sum(CostHeld, Assets) + cash
            /\ snap.total_market_value = Sum(ValueHeld, Assets) + cash

\* C14 amended: total_cost_basis is the cost of all open lots plus the USD and
\* ZUSD balances, total_market_value the quantity held times the last-known
\* price (0 if none) over the assets plus the same two balances; the EUR and
\* ZEUR balances, which step 1 also keeps as cash, are counted in neither.
C14_TotalsCountDollars ==
    SnapshotIsCurrent =>
        LET cash == Sum(Balance, {"USD", "ZUSD"})
            snap == Last(portfolio_history)
        IN  /\ snap.total_cost_basis = Sum(CostHeld, Assets) + cash
            /\ snap.total_market_value = Sum(ValueHeld, Assets) + cash

\* C14 witness: a snapshot taken with a lot of BTC held, a dollar balance and a
\* euro balance.
C14_Witness ==
    /\ Completed
    /\ held(inventory, "BTC") > 0 /\ last_known_prices["BTC"] > 0
    /\ Balance("USD") > 0 /\ Balance("EUR") > 0
    /\ Last(portfolio_history).total_market_value =
          held(inventory, "BTC") * last_known_prices["BTC"] + Balance("USD")

\* C15: a genuine acquisition appends exactly one lot at the back of the queue
\* of its asset, with the quantity of the transaction, the unit cost
\* fiat_value/amount (0 when fiat_value is absent) and the date of the
\* transaction; the lots already there, the queues of the other assets and the
\* realized-gain log stay as they were.
C15_AcquisitionAppendsOneLot ==
    [][(Stepped /\ Acquisition(Last(transactions'))) =>
        LET tx == Last(transactions')
            q == IF tx.asset \in DOMAIN inventory THEN inventory[tx.asset] ELSE <<>>
            r == inventory'[tx.asset]
        IN  /\ DOMAIN inventory' = DOMAIN inventory \cup {tx.asset}
            /\ Len(r) = Len(q) + 1
            /\ \A j \in 1..Len(q) : r[j] = q[j]
            /\ r[Len(r)].qty = tx.amount
            /\ r[Len(r)].date = tx.timestamp
            /\ r[Len(r)].unit_cost * tx.amount =
                  (IF tx.fiat_value = <<>> THEN 0 ELSE tx.fiat_value[1])
            /\ \A a \in DOMAIN inventory \ {tx.asset} : inventory'[a] = inventory[a]
            /\ realized_gains' = realized_gains]_vars

\* C15 witness: an acquisition at the unit cost of the lot at the back of the
\* queue has added a lot of its own behind it.
C15_Witness ==
    /\ Completed
    /\ Acquisition(Current)
    /\ Len(inventory[Current.asset]) = 2
    /\ inventory[Current.asset][1].unit_cost = inventory[Current.asset][2].unit_cost
    /\ inventory[Current.asset][1].date < inventory[Current.asset][2].date
    /\ inventory[Current.asset][2].qty = Current.amount
    /\ inventory[Current.asset][2].date = Current.timestamp

\* C16: in every state of the engine every lot of every queue has a quantity
\* above zero: a lot a disposal reduces to zero is removed, a lot consumed in
\* part keeps what is left, and no lot is added with a quantity of zero or less.
C16_LotsArePositive ==
    \A a \in DOMAIN inventory :
        \A j \in 1..Len(inventory[a]) : inventory[a][j].qty > 0

\* C16 witness: of two lots acquired, a disposal of exactly the quantity of the
\* first has left the second alone in the queue.
C16_Witness ==
    /\ Completed
    /\ Len(transactions) = 3
    /\ Acquisition(transactions[1]) /\ Acquisition(transactions[2])
    /\ Disposal(Current)
    /\ transactions[1].asset = Current.asset /\ transactions[2].asset = Current.asset
    /\ Current.amount + transactions[1].amount = 0
    /\ Len(inventory[Current.asset]) = 1
    /\ inventory[Current.asset][1].date = transactions[2].timestamp
    /\ inventory[Current.asset][1].qty = transactions[2].amount

\* C17: in every state of the engine every lot has a unit cost of zero or
\* more, whatever the sign of fiat_value in the acquisitions processed.
C17_UnitCostNonNegative ==
    \A a \in DOMAIN inventory :
        \A j \in 1..Len(inventory[a]) : inventory[a][j].unit_cost >= 0

\* C19: a transfer updates the last-known price of its asset only when
\* fiat_value is present, to |fiat_value| / |amount|; when fiat_value is absent
\* the last-known prices stay as they were.
C19_TransferKeepsPrice ==
    [][(Stepped /\ Transfer(Last(transactions'))) =>
        LET tx == Last(transactions')
        IN  IF tx.fiat_value = <<>>
            THEN last_known_prices' = last_known_prices
            ELSE /\ tx.asset \in DOMAIN last_known_prices'
                 /\ last_known_prices'[tx.asset] * abs(tx.amount) =
                       abs(tx.fiat_value[1])]_vars

\* C18: a transaction in USD, ZUSD, EUR or ZEUR, of either sign and any type,
\* adds its amount to the cash balance of that symbol and changes nothing else:
\* not the inventory, the last-known prices, the cumulative realized gain, the
\* realized-gain log or another balance; and no queue of lots is ever kept
\* for such a symbol.
C18_FiatChangesCashOnly ==
    [][/\ DOMAIN inventory' \cap {"USD", "ZUSD", "EUR", "ZEUR"} = {}
       /\ (Stepped /\ ~Crypto(Last(transactions'))) =>
            LET tx == Last(transactions')
            IN  /\ pc' = "loop"
                /\ inventory' = inventory
                /\ last_known_prices' = last_known_prices
                /\ cumulative_realized_gain' = cumulative_realized_gain
                /\ realized_gains' = realized_gains
                /\ DOMAIN current_balances' = DOMAIN current_balances \cup {tx.asset}
                /\ current_balances'[tx.asset] = Balance(tx.asset) + tx.amount
                /\ \A a \in DOMAIN current_balances \ {tx.asset} :
                      current_balances'[a] = current_balances[a]]_vars

\* C18 witness: with BTC held and a price known, a USD transaction of negative
\* amount has reduced the USD balance an earlier deposit left.
C18_Witness ==
    /\ Completed
    /\ Current.asset = "USD" /\ Current.amount < 0
    /\ Len(transactions) = 3
    /\ transactions[1].asset = "USD" /\ transactions[1].amount > 0
    /\ Balance("USD") = transactions[1].amount + Current.amount
    /\ held(inventory, "BTC") > 0
    /\ "BTC" \in DOMAIN last_known_prices
    /\ "USD" \notin DOMAIN inventory

\* The cells pandas and Decimal can read as a date and as a number.
LedgerDates == {"2024-01-01 00:00:00", "2024-01-02 00:00:00"}

Numerals == {"0", "1", "-1", "2", "3"}

Empty == {"NaN", ""}

Unparseable(row) ==
    \/ row.time \notin LedgerDates
    \/ row.amount \notin Numerals
    \/ row.fee \notin Numerals
    \/ row.balance \notin Numerals \cup Empty
    \/ row.amountusd \notin Numerals \cup Empty

\* C20: parse_kraken_ledger emits no transaction for a row whose time, amount,
\* fee, balance or amountusd cell is unparseable: the row is skipped, the list
\* built so far is kept and the parsing goes on with the rows that remain.
C20_UnparseableRowSkipped ==
    [][(Len(rows') = Len(rows) + 1 /\ Unparseable(Last(rows'))) =>
          (given' = given /\ pc' = "parsing")]_vars

====
